---- MODULE Spec2Model ----
(***************************************************************************)
(* Model of otplike.logfmt (src/src/main.rs): a stream filter that reads   *)
(* one JSON log record per line from stdin and, when stdout is a terminal, *)
(* renders it as coloured text; otherwise it copies the line through.      *)
(*                                                                         *)
(* A String of the program is a sequence of spans, each span a piece of    *)
(* text with the ANSI style it is painted in; format! concatenates spans.  *)
(* stdout is the sequence of physical lines written so far.                *)
(***************************************************************************)
EXTENDS Integers, Sequences, FiniteSets, TLC

VARIABLES tty, tz, stdin, pos, out, status

vars == <<tty, tz, stdin, pos, out, status>>

(***************************************************************************)
(* Bounds of the model.                                                    *)
(***************************************************************************)
\* longest input stream of the stream specification
MaxLines == 3
\* most keys a record of the record specification carries
MaxKeys == 3

(***************************************************************************)
(* Option and Result.                                                      *)
(***************************************************************************)
None == <<>>
Some(x) == <<x>>
IsSome(o) == o # None
Unwrap(o) == o[1]
\* Option::or(Some(d)).unwrap()
UnwrapOr(o, d) == IF IsSome(o) THEN o[1] ELSE d

Ok(v) == [ok |-> TRUE, val |-> v]
Err(e) == [ok |-> FALSE, err |-> e]

(***************************************************************************)
(* serde_json values, and the two accessors process_line uses.             *)
(***************************************************************************)
Str(s) == [t |-> "string", s |-> s]
Num(n) == [t |-> "number", n |-> n]
Bool(b) == [t |-> "bool", b |-> b]
Null == [t |-> "null"]
Arr(a) == [t |-> "array", a |-> a]
Obj(m) == [t |-> "object", m |-> m]

\* Map::get
Get(m, k) == IF k \in DOMAIN m THEN Some(m[k]) ELSE None
\* AsStr with every value stringified instead of only strings accepted
AsStrCoerced(o) ==
  IF IsSome(o)
  THEN Some(IF Unwrap(o).t = "string" THEN Unwrap(o).s ELSE "null")
  ELSE None

\* Option<&Value>::and_then(Value::as_str)
AsStr(o) == IF IsSome(o) /\ Unwrap(o).t = "string" THEN Some(Unwrap(o).s) ELSE None
\* Map::remove
Remove(m, k) == [x \in DOMAIN m \ {k} |-> m[x]]

(***************************************************************************)
(* Styled text: ansi_term's Colour::paint and Style::bold.                 *)
(***************************************************************************)
Paint(colour, text) == <<[colour |-> colour, bold |-> FALSE, text |-> text]>>
PaintBold(colour, text) == <<[colour |-> colour, bold |-> TRUE, text |-> text]>>
\* literal text of a format string
Plain(text) == <<[colour |-> "none", bold |-> FALSE, text |-> text]>>

\* what a formatter hands back: a String, or the panic of an unwrap
Done(s) == [panic |-> FALSE, s |-> s]
Panic == [panic |-> TRUE, s |-> <<>>]

RECURSIVE Spaces(_)
Spaces(n) == IF n <= 0 THEN "" ELSE " " \o Spaces(n - 1)

LevelWidth == 7
PidWidth == 10

\* {:^w}: the padding is split, the odd space going to the right
Center(s, w) ==
  LET pad == IF Len(s) >= w THEN 0 ELSE w - Len(s)
  IN  Spaces(pad \div 2) \o s \o Spaces((pad + 1) \div 2)

\* {:<w}
LeftJustify(s, w) == s \o Spaces(w - Len(s))

(***************************************************************************)
(* chrono: str::parse::<DateTime<Local>>, conversion to the local zone and *)
(* DateTime::format("%Y-%m-%d %H:%M:%S").                                  *)
(***************************************************************************)
DateTime(y, mo, d, h, mi, s) ==
  [year |-> y, month |-> mo, day |-> d, hour |-> h, min |-> mi, sec |-> s]

\* the parser on the "when" strings of the model: an RFC 3339 date and time
\* with an offset parses to its UTC instant, anything else is an error
ParseDateTime(s) ==
  CASE s = "2023-01-01T10:00:00Z" -> Ok(DateTime(2023, 1, 1, 10, 0, 0))
    [] s = "2023-12-31T23:30:00Z" -> Ok(DateTime(2023, 12, 31, 23, 30, 0))
    [] s = "2024-03-01T02:15:30Z" -> Ok(DateTime(2024, 3, 1, 2, 15, 30))
    [] s = "" -> Err("premature end of input")
    [] OTHER -> Err("input contains invalid characters")

IsLeap(y) == (y % 4 = 0 /\ y % 100 # 0) \/ y % 400 = 0

DaysInMonth(y, mo) ==
  IF mo = 2 THEN (IF IsLeap(y) THEN 29 ELSE 28)
  ELSE IF mo \in {4, 6, 9, 11} THEN 30 ELSE 31

NextDay(dt) ==
  IF dt.day < DaysInMonth(dt.year, dt.month) THEN [dt EXCEPT !.day = @ + 1]
  ELSE IF dt.month < 12 THEN [dt EXCEPT !.day = 1, !.month = @ + 1]
  ELSE [dt EXCEPT !.day = 1, !.month = 1, !.year = @ + 1]

PrevDay(dt) ==
  IF dt.day > 1 THEN [dt EXCEPT !.day = @ - 1]
  ELSE IF dt.month > 1
       THEN [dt EXCEPT !.day = DaysInMonth(dt.year, dt.month - 1), !.month = @ - 1]
  ELSE [dt EXCEPT !.day = 31, !.month = 12, !.year = @ - 1]

\* DateTime<Local>: the UTC instant seen at the local offset (whole hours)
ToLocal(utc, offset) ==
  LET h == utc.hour + offset
  IN  IF h < 0 THEN [PrevDay(utc) EXCEPT !.hour = h + 24]
      ELSE IF h >= 24 THEN [NextDay(utc) EXCEPT !.hour = h - 24]
      ELSE [utc EXCEPT !.hour = h]

Digit(n) ==
  CASE n = 0 -> "0" [] n = 1 -> "1" [] n = 2 -> "2" [] n = 3 -> "3" [] n = 4 -> "4"
    [] n = 5 -> "5" [] n = 6 -> "6" [] n = 7 -> "7" [] n = 8 -> "8" [] n = 9 -> "9"

Pad2(n) == Digit((n \div 10) % 10) \o Digit(n % 10)
Pad4(n) == Pad2(n \div 100) \o Pad2(n % 100)

\* "%Y-%m-%d %H:%M:%S"
FormatDateTime(dt) ==
  Pad4(dt.year) \o "-" \o Pad2(dt.month) \o "-" \o Pad2(dt.day) \o " "
    \o Pad2(dt.hour) \o ":" \o Pad2(dt.min) \o ":" \o Pad2(dt.sec)

(***************************************************************************)
(* The field formatters.                                                   *)
(***************************************************************************)
\* LevelColour with red as the catch-all arm
LevelColourDefaultRed(level) ==
  CASE level \in {"alert", "critical", "error"} -> "red"
    [] level \in {"warning", "notice"} -> "yellow"
    [] level = "info" -> "blue"
    [] level = "debug" -> "purple"
    [] OTHER -> "red"

LevelColour(level) ==
  CASE level \in {"alert", "critical", "error"} -> "red"
    [] level \in {"warning", "notice"} -> "yellow"
    [] level = "info" -> "blue"
    [] level = "debug" -> "purple"
    [] OTHER -> "blue"

LevelFormatter(level) ==
  LET l == UnwrapOr(level, "XXXXXX")
  IN  Done(Paint(LevelColour(l), "[" \o Center(l, LevelWidth) \o "]"))

\* WhenFormatter with unwrap_or: a parse failure renders the placeholder
WhenFormatterLenient(when, offset) ==
  LET parsed == IF IsSome(when) THEN ParseDateTime(Unwrap(when)) ELSE Err("")
  IN  IF parsed.ok
      THEN Done(Paint("blue", FormatDateTime(ToLocal(parsed.val, offset))))
      ELSE Done(Paint("blue", "XXXX-XX-XX XX:XX:XX"))

WhenFormatter(when, offset) ==
  IF IsSome(when)
  THEN LET parsed == ParseDateTime(Unwrap(when))
       IN  IF parsed.ok
           THEN Done(Paint("blue", FormatDateTime(ToLocal(parsed.val, offset))))
           ELSE Panic
  ELSE Done(Paint("blue", "XXXX-XX-XX XX:XX:XX"))

PidFormatter(pid) ==
  Done(Paint("blue", LeftJustify(UnwrapOr(pid, "XXXXXX"), PidWidth)))

WhatFormatter(what) == Done(Paint("white", UnwrapOr(what, "")))

InFormatter(in) == Done(Paint("white", "| " \o UnwrapOr(in, "")))

TextFormatter(text) ==
  IF IsSome(text)
  THEN Done(PaintBold("blue", ">>") \o Plain(" ") \o Paint("green", Unwrap(text)))
  ELSE Panic

(***************************************************************************)
(* Lines of stdout.  println! writes one physical line; the pretty-printed *)
(* coloured JSON of colored_json is kept as one block.                     *)
(***************************************************************************)
StyledLine(s) == [kind |-> "styled", spans |-> s]
\* an input line written back as it was read
RawLine(line) == [kind |-> "raw", line |-> line]
\* to_colored_json_auto(&value)
ColouredJson(v) == [kind |-> "json", value |-> v]
BlankLine == StyledLine(<<>>)

(***************************************************************************)
(* process_line.                                                           *)
(***************************************************************************)
RecognizedKeys == <<"when", "level", "pid", "what", "in", "at", "log", "id", "text">>

\* the five formatters, called in source order before anything is printed
Segments(line, offset) ==
  << WhenFormatter(AsStr(Get(line, "when")), offset),
     LevelFormatter(AsStr(Get(line, "level"))),
     PidFormatter(AsStr(Get(line, "pid"))),
     WhatFormatter(AsStr(Get(line, "what"))),
     InFormatter(AsStr(Get(line, "in"))) >>

\* PrimaryLine with the arguments in the order they were computed (what, in_)
PrimaryLineWhatFirst(line, offset) ==
  LET seg == Segments(line, offset)
  IN  IF \E i \in 1..Len(seg) : seg[i].panic
      THEN [panic |-> TRUE, lines |-> <<>>]
      ELSE [panic |-> FALSE,
            lines |-> << StyledLine(seg[1].s \o Plain(" ") \o seg[2].s \o Plain(" ")
                           \o seg[3].s \o Plain(" ") \o seg[4].s \o Plain(" ")
                           \o seg[5].s) >>]

\* println!("{} {} {} {} {}", when, level, pid, in_, what)
PrimaryLine(line, offset) ==
  LET seg == Segments(line, offset)
  IN  IF \E i \in 1..Len(seg) : seg[i].panic
      THEN [panic |-> TRUE, lines |-> <<>>]
      ELSE [panic |-> FALSE,
            lines |-> << StyledLine(seg[1].s \o Plain(" ") \o seg[2].s \o Plain(" ")
                           \o seg[3].s \o Plain(" ") \o seg[5].s \o Plain(" ")
                           \o seg[4].s) >>]

\* NoteLines without the is_some guard
NoteLinesUnguarded(line) ==
  LET note == TextFormatter(AsStr(Get(line, "text")))
  IN  IF note.panic THEN [panic |-> TRUE, lines |-> <<>>]
      ELSE [panic |-> FALSE, lines |-> <<StyledLine(note.s)>>]

\* if text.is_some() { println!("{}", text.format::<TextFormatter>()) }
NoteLines(line) ==
  LET text == AsStr(Get(line, "text"))
  IN  IF IsSome(text)
      THEN LET note == TextFormatter(text)
           IN  IF note.panic THEN [panic |-> TRUE, lines |-> <<>>]
               ELSE [panic |-> FALSE, lines |-> <<StyledLine(note.s)>>]
      ELSE [panic |-> FALSE, lines |-> <<>>]

\* for k in vec![...] { line.remove(k); }
RECURSIVE RemoveAll(_, _)
RemoveAll(line, ks) ==
  IF ks = <<>> THEN line ELSE RemoveAll(Remove(line, Head(ks)), Tail(ks))

\* RemoveRecognized with only the keys that were printed
RemoveRenderedOnly(line) ==
  RemoveAll(line, <<"when", "level", "pid", "what", "in", "text">>)

RemoveRecognized(line) == RemoveAll(line, RecognizedKeys)

\* ResidualLines without the "\n" of the format string
ResidualLinesNoBlank(line) ==
  LET rest == RemoveAll(line, RecognizedKeys)
  IN  IF DOMAIN rest # {} THEN <<ColouredJson(Obj(rest))>> ELSE <<>>

\* if !line.is_empty() { println!("{}\n", highlighted.unwrap()) }
ResidualLines(line) ==
  LET rest == RemoveRecognized(line)
  IN  IF DOMAIN rest # {} THEN <<ColouredJson(Obj(rest)), BlankLine>> ELSE <<>>

\* what process_line writes, and whether it ends in a panic
ProcessLine(line, offset) ==
  LET primary == PrimaryLine(line, offset)
      note == NoteLines(line)
  IN  IF primary.panic THEN primary
      ELSE IF note.panic THEN [panic |-> TRUE, lines |-> primary.lines]
      ELSE [panic |-> FALSE,
            lines |-> primary.lines \o note.lines \o ResidualLines(line)]

(***************************************************************************)
(* Input lines and serde_json::from_str.  A line is either text that is    *)
(* not JSON or the serialisation of one JSON value.                        *)
(***************************************************************************)
Text(s) == [kind |-> "text", text |-> s]
Json(v) == [kind |-> "json", value |-> v]

\* the parser's message on the malformed lines of the model
ParseError(s) ==
  CASE s = "" -> "EOF while parsing a value at line 1 column 0"
    [] s = "{" -> "EOF while parsing an object at line 1 column 1"
    [] OTHER -> "expected ident at line 1 column 2"

FromStr(line) ==
  IF line.kind = "json" THEN Ok(line.value) ELSE Err(ParseError(line.text))

\* Colour::Red.paint(format!("cannot parse log line: {}\n{}", e, line))
ErrorBlock(e, line) ==
  << StyledLine(Paint("red", "cannot parse log line: " \o e)),
     StyledLine(Paint("red", line.text)) >>

(***************************************************************************)
(* The inputs of the model.                                                *)
(***************************************************************************)
TzOffsets == {-5, 0, 2}

GoodWhen == "2023-01-01T10:00:00Z"

\* lines of the stream specification
Lines ==
  { Text("not json"), Text("{"),
    Json(Arr(<<>>)), Json(Null), Json(Str("when")), Json(Num(0)), Json(Bool(FALSE)),
    Json(Obj("a" :> Num(1))),
    Json(Obj("b" :> Num(2))),
    Json(Obj("when" :> Str("yesterday"))),
    Json(Obj(("when" :> Str(GoodWhen)) @@ ("level" :> Str("error"))
               @@ ("text" :> Str("boom")))) }

RECURSIVE SeqsUpTo(_, _)
SeqsUpTo(S, n) ==
  IF n = 0 THEN {<<>>}
  ELSE LET shorter == SeqsUpTo(S, n - 1)
       IN  shorter \cup {Append(q, x) : q \in shorter, x \in S}

\* keys and values of the record specification
Keys ==
  <<"when", "level", "pid", "what", "in", "at", "log", "id", "text", "foo", "bar">>

ValuesOf(k) ==
  CASE k = "when" ->
         { Str(GoodWhen), Str("2023-12-31T23:30:00Z"), Str("2024-03-01T02:15:30Z"),
           Str("yesterday"), Str(""), Num(1672567200) }
    [] k = "level" ->
         { Str("alert"), Str("critical"), Str("error"), Str("warning"), Str("notice"),
           Str("info"), Str("debug"), Str("trace"), Str("XXXXXX"), Str("emergency"),
           Num(3) }
    [] k = "pid" -> { Str("<0.1.0>"), Str("<0.12345.67>"), Num(42) }
    [] k = "what" -> { Str("started"), Bool(TRUE) }
    [] k = "in" -> { Str("app:init/1"), Arr(<<Str("app")>>) }
    [] k = "text" -> { Str("hello"), Null, Obj("msg" :> Str("hello")) }
    [] k = "foo" -> { Str("bar"), Num(7), Obj("when" :> Str("nested")) }
    [] k = "bar" -> { Null, Str("") }
    [] OTHER -> { Str("x"), Num(1) }

RECURSIVE RecordsOver(_)
RecordsOver(ks) ==
  IF ks = <<>> THEN {<<>>}
  ELSE LET rest == RecordsOver(Tail(ks))
       IN  rest \cup { (Head(ks) :> v) @@ r :
                         r \in {p \in rest : Cardinality(DOMAIN p) < MaxKeys},
                         v \in ValuesOf(Head(ks)) }

Records == RecordsOver(Keys)

NonObjects == { Arr(<<>>), Arr(<<Num(1)>>), Str("when"), Num(0), Bool(FALSE), Null }

AllLines ==
  {Text(s) : s \in {"not json", "", "{"}} \cup {Json(v) : v \in NonObjects}
    \cup {Json(Obj(r)) : r \in Records}

(***************************************************************************)
(* main.                                                                   *)
(***************************************************************************)
TypeOK ==
  /\ tty \in BOOLEAN
  /\ tz \in TzOffsets
  /\ pos \in 0..Len(stdin)
  /\ status \in {"running", "exit_ok", "exit_err", "panicked"}

\* let tty = atty::is(Stream::Stdout), and the stream stdin will deliver
Start(inputs) ==
  /\ tty \in BOOLEAN
  /\ tz \in TzOffsets
  /\ stdin \in inputs
  /\ pos = 0
  /\ out = <<>>
  /\ status = "running"

Init == Start(SeqsUpTo(Lines, MaxLines))

InitRecord == Start({<<l>> : l \in AllLines})

HasLine == status = "running" /\ pos < Len(stdin)
Current == stdin[pos + 1]

\* Passthrough with the parse done in both modes: a malformed line is reported
PassthroughParsed ==
  /\ HasLine /\ ~tty
  /\ out' = IF FromStr(Current).ok THEN Append(out, RawLine(Current))
            ELSE out \o ErrorBlock(FromStr(Current).err, Current)
  /\ pos' = pos + 1
  /\ UNCHANGED <<tty, tz, stdin, status>>

\* else { println!("{}", line) }
Passthrough ==
  /\ HasLine /\ ~tty
  /\ out' = Append(out, RawLine(Current))
  /\ pos' = pos + 1
  /\ UNCHANGED <<tty, tz, stdin, status>>

IsObject(parsed) == parsed.ok /\ parsed.val.t = "object"

\* Ok(Value::Object(line)) => process_line(line)
Render ==
  /\ HasLine /\ tty /\ IsObject(FromStr(Current))
  /\ LET r == ProcessLine(FromStr(Current).val.m, tz)
     IN  /\ ~r.panic
         /\ out' = out \o r.lines
  /\ pos' = pos + 1
  /\ UNCHANGED <<tty, tz, stdin, status>>

\* process_line unwinds out of an unwrap: the process aborts
RenderPanic ==
  /\ HasLine /\ tty /\ IsObject(FromStr(Current))
  /\ LET r == ProcessLine(FromStr(Current).val.m, tz)
     IN  /\ r.panic
         /\ out' = out \o r.lines
  /\ status' = "panicked"
  /\ pos' = pos + 1
  /\ UNCHANGED <<tty, tz, stdin>>

\* ReportParseError with the parse result unwrapped: the error aborts the run
ReportParseErrorAborts ==
  /\ HasLine /\ tty /\ ~FromStr(Current).ok
  /\ out' = out \o ErrorBlock(FromStr(Current).err, Current)
  /\ pos' = pos + 1
  /\ status' = "panicked"
  /\ UNCHANGED <<tty, tz, stdin>>

\* Err(e) => println!(...)
ReportParseError ==
  /\ HasLine /\ tty /\ ~FromStr(Current).ok
  /\ out' = out \o ErrorBlock(FromStr(Current).err, Current)
  /\ pos' = pos + 1
  /\ UNCHANGED <<tty, tz, stdin, status>>

\* DropNonObject with the catch-all arm printing the line
DropNonObjectEchoed ==
  /\ HasLine /\ tty /\ FromStr(Current).ok /\ ~IsObject(FromStr(Current))
  /\ out' = Append(out, RawLine(Current))
  /\ pos' = pos + 1
  /\ UNCHANGED <<tty, tz, stdin, status>>

\* _ => {}
DropNonObject ==
  /\ HasLine /\ tty /\ FromStr(Current).ok /\ ~IsObject(FromStr(Current))
  /\ pos' = pos + 1
  /\ UNCHANGED <<tty, tz, stdin, out, status>>

\* let ref line = line?;  the read of the next line fails
ReadError ==
  /\ status = "running"
  /\ status' = "exit_err"
  /\ UNCHANGED <<tty, tz, stdin, pos, out>>

\* the lines iterator is exhausted: Ok(())
EndOfInput ==
  /\ status = "running" /\ pos = Len(stdin)
  /\ status' = "exit_ok"
  /\ UNCHANGED <<tty, tz, stdin, pos, out>>

Next ==
  \/ Passthrough
  \/ Render
  \/ RenderPanic
  \/ ReportParseError
  \/ DropNonObject
  \/ ReadError
  \/ EndOfInput

Spec == Init /\ [][Next]_vars

SpecRecord == InitRecord /\ [][Next]_vars

(***************************************************************************)
(* Vocabulary of the properties.                                           *)
(***************************************************************************)
IsObjectLine(l) == l.kind = "json" /\ l.value.t = "object"
IsNonObjectLine(l) ==
  l.kind = "json" /\ l.value.t \in {"array", "string", "number", "bool", "null"}
IsMalformedLine(l) == l.kind = "text"

\* an object whose "when" is a string the timestamp parser rejects
WhenUnparsable(l) ==
  /\ IsObjectLine(l)
  /\ "when" \in DOMAIN l.value.m
  /\ l.value.m["when"].t = "string"
  /\ ~ParseDateTime(l.value.m["when"].s).ok

Contains(s, sub) ==
  \E k \in 0..(Len(s) - Len(sub)) : SubSeq(s, k + 1, k + Len(sub)) = sub

Rendering(l) == ProcessLine(l.value.m, tz).lines

ErrorBlockOf(l) ==
  << StyledLine(Paint("red", "cannot parse log line: " \o ParseError(l.text))),
     StyledLine(Paint("red", l.text)) >>

MalformedBetweenObjects(i) ==
  /\ i \in 2..(Len(stdin) - 1)
  /\ IsMalformedLine(stdin[i])
  /\ IsObjectLine(stdin[i - 1])
  /\ IsObjectLine(stdin[i + 1])

(***************************************************************************)
(* C1.  Passthrough mode is the identity on input lines: when stdout is    *)
(* not a terminal the output is, line for line and in order, the input     *)
(* read so far (all of it once the run has ended with success), nothing is *)
(* parsed, so no error block, no rendered record and no timestamp panic    *)
(* ever appears.                                                           *)
(***************************************************************************)
C1_PassthroughIdentity ==
  ~tty =>
    /\ Len(out) = pos
    /\ \A i \in 1..pos : out[i] = RawLine(stdin[i])
    /\ status # "panicked"
    /\ status = "exit_ok" => Len(out) = Len(stdin)

C1_Witness ==
  /\ ~tty /\ status = "exit_ok" /\ Len(stdin) >= 3
  /\ \E i, j, k \in 1..Len(stdin) :
       /\ IsMalformedLine(stdin[i])
       /\ WhenUnparsable(stdin[j])
       /\ IsNonObjectLine(stdin[k])

(***************************************************************************)
(* C2 as stated.  In interactive mode, for every input in which a line     *)
(* that fails to parse stands between two JSON objects, the output of the  *)
(* finished run holds the rendering of the first record, the error block   *)
(* (message, then raw line) and the rendering of the second, in order.     *)
(***************************************************************************)
C2_AsStated ==
  (tty /\ status \in {"exit_ok", "panicked"}) =>
    \A i \in 1..Len(stdin) :
      MalformedBetweenObjects(i) =>
        Contains(out, Rendering(stdin[i - 1]) \o ErrorBlockOf(stdin[i])
                        \o Rendering(stdin[i + 1]))

(***************************************************************************)
(* C2 amended.  In interactive mode a malformed line never ends the run    *)
(* (a panic is always that of a record with an unparsable "when"), a run   *)
(* that ends with success has read every line, and for every malformed     *)
(* line between two JSON objects, once the three lines are processed and   *)
(* no record up to the second one carries an unparsable "when", the        *)
(* output holds, in order, the first rendering, the error block and the    *)
(* second rendering.                                                       *)
(***************************************************************************)
C2_MalformedNeverHalts ==
  tty =>
    /\ status = "panicked" => (pos >= 1 /\ WhenUnparsable(stdin[pos]))
    /\ status = "exit_ok" => pos = Len(stdin)
    /\ \A i \in 1..Len(stdin) :
         ( /\ MalformedBetweenObjects(i)
           /\ pos >= i + 1
           /\ \A j \in 1..(i + 1) : ~WhenUnparsable(stdin[j]) )
         => Contains(out, Rendering(stdin[i - 1]) \o ErrorBlockOf(stdin[i])
                            \o Rendering(stdin[i + 1]))

C2_Witness ==
  /\ tty /\ status = "exit_ok"
  /\ \E i \in 1..Len(stdin) : MalformedBetweenObjects(i)

(***************************************************************************)
(* C3.  In interactive mode the step that consumes a line holding valid    *)
(* JSON that is not an object (array, string, number, boolean, null)       *)
(* writes nothing, reports no error and leaves the run going.              *)
(***************************************************************************)
C3_NonObjectDropped ==
  [][ (HasLine /\ tty /\ IsNonObjectLine(Current) /\ pos' = pos + 1)
        => (out' = out /\ status' = "running") ]_vars

\* a non-object line was dropped and the record after it was rendered
C3_Witness ==
  /\ tty /\ pos >= 2
  /\ IsNonObjectLine(stdin[1])
  /\ IsObjectLine(stdin[2])
  /\ out = Rendering(stdin[2])
  /\ out # <<>>

(***************************************************************************)
(* C4.  A record whose "when" is a string the timestamp parser rejects is  *)
(* fatal: the step that consumes it writes nothing and ends in a panic,    *)
(* and no step follows a panic; a record without a "when" key never fails  *)
(* and its primary line starts with the placeholder XXXX-XX-XX XX:XX:XX.   *)
(***************************************************************************)
C4_BadWhenIsFatal ==
  [][ /\ (HasLine /\ tty /\ WhenUnparsable(Current) /\ pos' = pos + 1)
          => (out' = out /\ status' = "panicked")
      /\ status # "panicked"
      /\ ( /\ HasLine /\ tty /\ IsObjectLine(Current)
           /\ "when" \notin DOMAIN Current.value.m
           /\ pos' = pos + 1 )
          => ( /\ status' = "running"
               /\ Len(out') > Len(out)
               /\ out'[Len(out) + 1].kind = "styled"
               /\ out'[Len(out) + 1].spans[1] =
                    [colour |-> "blue", bold |-> FALSE, text |-> "XXXX-XX-XX XX:XX:XX"] )
    ]_vars

\* a panic after earlier output, with input left unread
C4_Witness ==
  /\ tty /\ status = "panicked"
  /\ pos >= 2 /\ pos < Len(stdin)
  /\ WhenUnparsable(stdin[pos])
  /\ IsObjectLine(stdin[1]) /\ "when" \notin DOMAIN stdin[1].value.m
  /\ out # <<>>

(***************************************************************************)
(* Vocabulary of the properties of one record (SpecRecord: one line).      *)
(***************************************************************************)
Rec == stdin[1].value.m

\* the line was an object and the interactive step that consumes it is done
RecordProcessed == tty /\ pos = 1 /\ IsObjectLine(stdin[1])
\* ... and its rendering was not cut short by the timestamp
RecordRendered == RecordProcessed /\ ~WhenUnparsable(stdin[1])

RecognizedSet == {"when", "level", "pid", "what", "in", "at", "log", "id", "text"}
RenderedSet == {"when", "level", "pid", "what", "in"}

HasString(m, k) == k \in DOMAIN m /\ m[k].t = "string"
StringOr(m, k, d) == IF HasString(m, k) THEN m[k].s ELSE d

JsonBlocks == {i \in 1..Len(out) : out[i].kind = "json"}
IsNote(l) ==
  /\ l.kind = "styled" /\ Len(l.spans) >= 1
  /\ l.spans[1] = [colour |-> "blue", bold |-> TRUE, text |-> ">>"]
NoteRows == {i \in 1..Len(out) : IsNote(out[i])}

Span(c, t) == [colour |-> c, bold |-> FALSE, text |-> t]

(***************************************************************************)
(* C5.  For a rendered record the residual block is the record without the *)
(* recognized keys when, level, pid, what, in, at, log, id, text: it holds *)
(* every other key with its original value and no recognized key, and it   *)
(* is written (once) exactly when some key is left, never as an empty      *)
(* block.                                                                  *)
(***************************************************************************)
C5_ResidualBlock ==
  RecordRendered =>
    LET U == DOMAIN Rec \ RecognizedSet
    IN  IF U = {} THEN JsonBlocks = {}
        ELSE \E i \in 1..Len(out) :
               /\ JsonBlocks = {i}
               /\ out[i].value.t = "object"
               /\ DOMAIN out[i].value.m = U
               /\ \A k \in U : out[i].value.m[k] = Rec[k]

C5_Witness ==
  /\ RecordRendered
  /\ {"at", "foo", "bar"} \subseteq DOMAIN Rec
  /\ JsonBlocks # {}

(***************************************************************************)
(* C6.  For a rendered record whose "text" is a string the second output   *)
(* line, right after the primary line, is the note: a bold blue >> , a     *)
(* space, the text in green; without such a "text" no note line is         *)
(* written, and the note formatter is never reached with a missing value:  *)
(* the only panic of a record is that of an unparsable "when".             *)
(***************************************************************************)
C6_NoteLine ==
  RecordProcessed =>
    /\ status = "panicked" => WhenUnparsable(stdin[1])
    /\ ~WhenUnparsable(stdin[1]) =>
         IF HasString(Rec, "text")
         THEN /\ Len(out) >= 2
              /\ out[2] = StyledLine(<< [colour |-> "blue", bold |-> TRUE, text |-> ">>"],
                                        Span("none", " "),
                                        Span("green", Rec["text"].s) >>)
              /\ NoteRows = {2}
         ELSE NoteRows = {}

C6_Witness ==
  /\ RecordRendered
  /\ HasString(Rec, "text")
  /\ "foo" \in DOMAIN Rec
  /\ NoteRows = {2}
  /\ Len(out) = 4

(***************************************************************************)
(* C7 as stated.  The output of a rendered record ends with a blank line   *)
(* exactly when residual fields or a free-text note were rendered.         *)
(***************************************************************************)
C7_AsStated ==
  RecordRendered =>
    ((Len(out) >= 1 /\ out[Len(out)] = BlankLine)
       <=> (JsonBlocks # {} \/ NoteRows # {}))

(***************************************************************************)
(* C7 amended.  The output of a rendered record ends with a blank line     *)
(* exactly when residual fields were rendered; the blank line follows the  *)
(* residual block and is the only one; a free-text note alone adds none.   *)
(***************************************************************************)
C7_BlankAfterResidual ==
  RecordRendered =>
    /\ (Len(out) >= 1 /\ out[Len(out)] = BlankLine) <=> JsonBlocks # {}
    /\ \A i \in 1..Len(out) :
         out[i] = BlankLine => (i = Len(out) /\ i > 1 /\ out[i - 1].kind = "json")

C7_Witness ==
  /\ RecordRendered
  /\ NoteRows # {} /\ JsonBlocks # {}
  /\ out[Len(out)] = BlankLine

(***************************************************************************)
(* C8.  The colour of the level segment is a total function of the level   *)
(* string: alert, critical, error are red; warning, notice are yellow;     *)
(* info is blue; debug is purple; every other string, and the placeholder  *)
(* XXXXXX of a missing level, is blue like info; no level makes the        *)
(* rendering fail.                                                         *)
(***************************************************************************)
C8_LevelColour ==
  RecordRendered =>
    LET level == StringOr(Rec, "level", "XXXXXX")
        colour == out[1].spans[3].colour
    IN  /\ status # "panicked"
        /\ level \in {"alert", "critical", "error"} => colour = "red"
        /\ level \in {"warning", "notice"} => colour = "yellow"
        /\ level = "info" => colour = "blue"
        /\ level = "debug" => colour = "purple"
        /\ level \notin {"alert", "critical", "error", "warning", "notice",
                         "info", "debug"} => colour = "blue"

C8_Witness ==
  /\ RecordRendered
  /\ HasString(Rec, "level")
  /\ Rec["level"].s = "emergency"
  /\ out[1].spans[3] = Span("blue", "[emergency]")

(***************************************************************************)
(* The primary line of the record: five segments, single spaces between    *)
(* them, in the order when, level, pid, in, what; the placeholders when    *)
(* none of the five keys is present.                                       *)
(***************************************************************************)
PrimaryOK(l) ==
  /\ l.kind = "styled"
  /\ Len(l.spans) = 9
  /\ \A i \in {2, 4, 6, 8} : l.spans[i] = Span("none", " ")
  /\ l.spans[1].colour = "blue"
  /\ ~HasString(Rec, "when") => l.spans[1].text = "XXXX-XX-XX XX:XX:XX"
  /\ l.spans[3].text = "[" \o Center(StringOr(Rec, "level", "XXXXXX"), 7) \o "]"
  /\ l.spans[5] = Span("blue", LeftJustify(StringOr(Rec, "pid", "XXXXXX"), 10))
  /\ l.spans[7] = Span("white", "| " \o StringOr(Rec, "in", ""))
  /\ l.spans[9] = Span("white", StringOr(Rec, "what", ""))
  /\ DOMAIN Rec \cap RenderedSet = {} =>
       l = StyledLine(<< Span("blue", "XXXX-XX-XX XX:XX:XX"), Span("none", " "),
                         Span("blue", "[XXXXXX ]"), Span("none", " "),
                         Span("blue", "XXXXXX    "), Span("none", " "),
                         Span("white", "| "), Span("none", " "),
                         Span("white", "") >>)

(***************************************************************************)
(* C9 as stated.  Every record routed to the renderer gets its primary     *)
(* line, written first.                                                    *)
(***************************************************************************)
C9_AsStated ==
  RecordProcessed => (Len(out) >= 1 /\ PrimaryOK(out[1]))

(***************************************************************************)
(* C9 amended.  Every record routed to the renderer whose "when" is not a  *)
(* string the timestamp parser rejects gets its primary line, written      *)
(* first: five segments joined by single spaces in the order when, level,  *)
(* pid, in, what, and exactly the placeholders when all five keys are      *)
(* absent, whatever other keys the record has; for a record with an        *)
(* unparsable "when" nothing is written.                                   *)
(***************************************************************************)
C9_PrimaryLine ==
  /\ RecordRendered => (Len(out) >= 1 /\ PrimaryOK(out[1]))
  /\ (RecordProcessed /\ WhenUnparsable(stdin[1])) => out = <<>>

C9_Witness ==
  /\ RecordRendered
  /\ DOMAIN Rec \cap RecognizedSet = {}
  /\ DOMAIN Rec = {"foo", "bar"}
  /\ Len(out) = 3

(***************************************************************************)
(* C10.  A recognized key whose value is not a JSON string is formatted    *)
(* as if the key were absent: the output, and whether the rendering        *)
(* panics, are those of the record without the key; a non-string "when"    *)
(* gives the placeholder and no failure, a non-string "text" no note       *)
(* line, and the key is in no residual block.                              *)
(***************************************************************************)
C10_NonStringAsAbsent ==
  RecordProcessed =>
    \A k \in DOMAIN Rec \cap RecognizedSet :
      Rec[k].t # "string" =>
        LET without == ProcessLine([x \in DOMAIN Rec \ {k} |-> Rec[x]], tz)
        IN  /\ out = without.lines
            /\ (status = "panicked") <=> without.panic
            /\ \A i \in JsonBlocks : k \notin DOMAIN out[i].value.m
            /\ k = "when" =>
                 /\ status # "panicked"
                 /\ out[1].spans[1].text = "XXXX-XX-XX XX:XX:XX"
            /\ k = "text" => NoteRows = {}

C10_Witness ==
  /\ RecordRendered
  /\ {"when", "text", "foo"} \subseteq DOMAIN Rec
  /\ Rec["when"].t = "number"
  /\ Rec["text"].t = "null"
  /\ Len(out) = 3

====
